---- MODULE Spec2Model ----
(***************************************************************************)
(* Cart repository, cart server actions and the order workflow of the      *)
(* storefront, as a state machine over the four storage tables.  Every     *)
(* awaited storage statement is one atomic step of the request that        *)
(* issues it; requests of different callers interleave between statements. *)
(* Amounts are integers in units of 0.01 (prices are DECIMAL(10,2) rows    *)
(* parsed on read), so the reconciliation tolerance 0.01 is 1.             *)
(***************************************************************************)
EXTENDS Integers, Naturals, Sequences, FiniteSets, TLC

\* ---------------------------------------------------------------- bounds
\* Number of request slots that can be in flight at the same time.
NumSlots == 2
\* Total number of server-action invocations in one behaviour.
MaxCalls == 2
\* Number of out-of-band (administrative) product updates in one behaviour.
MaxAdminOps == 1
\* Largest stock quantity a product row takes.
MaxStock == 2
\* Largest limit and page argument of a product query.
MaxLimit == 3
MaxPage == 3
\* Largest number of earlier order lines per product.
MaxSales == 2
\* Number of mutate() calls of the cart hooks in one behaviour.
MaxMutates == 3
\* Number of submissions of the order form in one behaviour.
MaxSubmits == 2

\* ------------------------------------------------------- program constants
\* amountDifference > 0.01, in units of 0.01.
Tolerance == 1
\* const shippingFee = 0
ShippingFee == 0

\* ------------------------------------------------------------ value sets
Slots == 1..NumSlots
Users == {"u1", "u2"}
NoUser == "anonymous"
\* Rows of the products table; "p3" is an identifier no row has.
ProductIds == {"p1", "p2"}
UnknownProduct == "p3"
EmptyString == ""
Prices == {500, 1000}
\* Product names; the first and second are the names of "p1" and "p2".
Names == {"name1", "name2"}
\* The product rows that are updated out of band.
UpdatedProducts == {"p1"}
\* Cart item identifiers are allocated in creation order, so the identifier
\* order is the created_at order.  0 stands for the empty string, -1 for an
\* identifier no row ever has.
EmptyId == 0
UnknownId == -1
\* A quantity argument n, or n + 1/2 when frac is set.
QuantityInputs ==
    {[n |-> 0, frac |-> FALSE], [n |-> 1, frac |-> FALSE], [n |-> 2, frac |-> FALSE],
     [n |-> 1, frac |-> TRUE]}
\* Offsets of the client's expected total from the total of the cart as it
\* stands at submission: equal, within the tolerance, just beyond it, and one
\* unit price away (a total shown before the cart or a price changed).
ExpectedDeltas == {-500, -1, 0, 2}

\* ------------------------------------------------------ messages returned
MsgLoginRequired == "login required"
MsgProductIdRequired == "product id required"
MsgCartItemIdRequired == "cart item id required"
MsgQuantityInvalid == "quantity must be an integer of at least 1"
MsgProductNotFound == "product not found"
MsgSoldOut == "sold out"
MsgStockExceeded == "insufficient stock"
MsgCartItemNotFound == "cart item not found"
MsgProductInactive == "product inactive"
MsgQuantityBelowOne == "quantity below 1"
MsgAddFailed == "add to cart failed"
MsgUpdateFailed == "quantity change failed"
MsgRemoveFailed == "remove failed"
MsgClearFailed == "clear failed"
MsgCountFailed == "count failed"
MsgAddressRequired == "shipping address required"
MsgAmountInvalid == "order amount invalid"
MsgCartEmpty == "cart is empty"
MsgAmountChanged == "order amount changed"
MsgOrderStorage == "order storage error"
MsgOrderItemsStorage == "order items storage error"
MsgOrderFailed == "order creation failed"
MsgPostgrest == "storage error detail"
Ok == "ok"

\* A thrown value: `new Error(message)` or the storage client's error object,
\* which is an Error instance or a plain object depending on the client build.
ErrorOf(message) == [instanceOfError |-> TRUE, message |-> message]
StorageErrors ==
    {[instanceOfError |-> b, message |-> MsgPostgrest] : b \in BOOLEAN}
\* catch (error) { error instanceof Error ? error.message : generic }
CatchMessage(thrown, generic) ==
    IF thrown.instanceOfError THEN thrown.message ELSE generic

VARIABLES
    products,     \* products table: id -> [name, price, stock_quantity, is_active]
    cart_items,   \* cart_items table: set of rows
    orders,       \* orders table: set of rows
    order_items,  \* order_items table: set of rows
    nextCartId,   \* next cart_items identifier
    nextOrderId,  \* next orders identifier
    req,          \* per slot: the request in flight, its position and locals
    calls,        \* invocations so far
    adminOps,     \* product updates so far
    stockTouched, \* products whose stock_quantity was updated
    addLog,       \* per (user, product): quantities merged since the pair had no row
    listing,      \* the product query in flight, its position and locals
    client        \* browser: the query cache and the cart mutations

vars == <<products, cart_items, orders, order_items, nextCartId, nextOrderId,
          req, calls, adminOps, stockTouched, addLog, listing, client>>

db == <<products, cart_items, orders, order_items, nextCartId, nextOrderId>>

NoRow == [id |-> EmptyId, clerk_id |-> NoUser, product_id |-> EmptyString, quantity |-> 0]
NoQuantity == [n |-> 0, frac |-> FALSE]
NoExpected == [type |-> "undefined", val |-> 0]

Idle ==
    [op |-> "none", pc |-> "idle", userId |-> NoUser, productId |-> EmptyString,
     quantity |-> NoQuantity, cartItemId |-> EmptyId, shippingAddress |-> FALSE,
     expectedTotalAmount |-> NoExpected, stockQuantity |-> 0, existingItem |-> NoRow,
     finalQuantity |-> 0, cartItems |-> <<>>, grandTotal |-> 0, orderId |-> 0,
     count |-> 0, result |-> "none", writes |-> {}, faulted |-> FALSE]

CleanLog == [clean |-> TRUE, adds |-> <<>>]

\* No product query in flight.
IdleListing ==
    [op |-> "none", pc |-> "idle", status |-> "idle", category |-> "null", page |-> 1,
     limit |-> 0, sortBy |-> "latest", id |-> EmptyString, salesMap |-> <<>>,
     products |-> <<>>, totalCount |-> 0, currentPage |-> 1, totalPages |-> 1,
     changed |-> FALSE, failed |-> FALSE, shown |-> <<>>]

\* The cart hooks and the query keys they and useCartCount use.
Hooks == {"useAddToCart", "useUpdateCartItem", "useRemoveCartItem", "useClearCart"}
QueryKeys == {<<"cart", "count", u>> : u \in Users}

\* A mutation before mutate() is called; a query that was never invalidated.
IdleMutation == [status |-> "idle", result |-> [success |-> FALSE, error |-> "none"],
                 error |-> "none"]
\* The order form before the order page is rendered; payments are the
\* requestPayment calls made so far.
IdleForm ==
    [status |-> "unmounted", expectedTotalAmount |-> 0, submissions |-> 0,
     payments |-> <<>>]
IdleClient ==
    [queries |-> [k \in QueryKeys |-> [invalidated |-> FALSE, invalidations |-> 0]],
     mutations |-> [h \in Hooks |-> IdleMutation],
     mutates |-> 0,
     form |-> IdleForm]

\* The carts a behaviour starts from: no row, or the row left by one
\* addToCartAction("p1", 1) of "u1".
InitCarts ==
    {{}, {[id |-> 1, clerk_id |-> "u1", product_id |-> "p1", quantity |-> 1]}}

Init ==
    /\ products = [id \in ProductIds |->
                     IF id = "p1"
                     THEN [name |-> "name1", price |-> 1000, stock_quantity |-> MaxStock,
                           is_active |-> TRUE]
                     ELSE [name |-> "name2", price |-> 500, stock_quantity |-> 1,
                           is_active |-> TRUE]]
    /\ cart_items \in InitCarts
    /\ orders = {}
    /\ order_items = {}
    /\ nextCartId = Cardinality(cart_items) + 1
    /\ nextOrderId = 1
    /\ req = [s \in Slots |-> Idle]
    /\ calls = 0
    /\ adminOps = 0
    /\ stockTouched = {}
    /\ addLog = [u \in Users |-> [id \in ProductIds |->
                   LET rows == {r \in cart_items : r.clerk_id = u /\ r.product_id = id}
                   IN  IF rows = {} THEN CleanLog
                       ELSE [clean |-> TRUE,
                             adds |-> <<(CHOOSE r \in rows : TRUE).quantity>>]]]
    /\ listing = IdleListing
    /\ client = IdleClient

Running(s) == req[s].pc \notin {"idle", "done"}

\* A returned result stays in its slot for one state: the next step of any
\* request finds the slot free again.
Settled == [t \in Slots |-> IF req[t].pc = "done" THEN Idle ELSE req[t]]

\* Slots are interchangeable: a request takes the lowest free one.
CanInvoke(s) ==
    /\ ~Running(s)
    /\ \A t \in Slots : t < s => Running(t)
    /\ calls < MaxCalls

\* The record of a request: its arguments, position and locals.
Request(op, userId, fields) ==
    [f \in DOMAIN Idle |->
        IF f \in DOMAIN fields THEN fields[f]
        ELSE IF f = "op" THEN op
        ELSE IF f = "userId" THEN userId
        ELSE Idle[f]]

Unauthenticated_Never(userId) == userId = EmptyString

\* const { userId } = await auth(); if (!userId)
Unauthenticated(userId) == userId = NoUser

\* A request is invoked and runs up to the position in `request`.  auth() and
\* the input validation read no table, so an invocation runs through the
\* first storage statement of its handler as one step.
Begin(s, request) ==
    /\ CanInvoke(s)
    /\ calls' = calls + 1
    /\ req' = [Settled EXCEPT ![s] = request]

Returned(result) == [pc |-> "done", result |-> result]

\* catch (error): the thrown value becomes the returned message.
Thrown(thrown, generic) == Returned(CatchMessage(thrown, generic))

\* A storage statement fails at the transport level and the query function
\* rethrows the storage error.
Faults(generic) ==
    {[pc |-> "done", result |-> CatchMessage(e, generic), faulted |-> TRUE]
        : e \in StorageErrors}

\* A request in flight ends with the result it returns.
Finish(s, result) ==
    req' = [Settled EXCEPT ![s].pc = "done", ![s].result = result]

Throw(s, thrown, generic) == Finish(s, CatchMessage(thrown, generic))

StorageFault(s, generic) ==
    \E e \in StorageErrors :
        req' = [Settled EXCEPT ![s].pc = "done", ![s].faulted = TRUE,
                               ![s].result = CatchMessage(e, generic)]

\* ------------------------------------------------------- cart repository
RowsOf(rows, clerkId, productId) ==
    {r \in rows : r.clerk_id = clerkId /\ r.product_id = productId}

\* The ghost log of merged quantities after a statement that is not an add.
AddLogAfter(newCart) ==
    [u \in Users |-> [id \in ProductIds |->
        IF RowsOf(newCart, u, id) = {} THEN CleanLog
        ELSE IF RowsOf(newCart, u, id) = RowsOf(cart_items, u, id) THEN addLog[u][id]
        ELSE [addLog[u][id] EXCEPT !.clean = FALSE]]]

\* quantity < 1 || !Number.isInteger(quantity)
QuantityRejected(q) == q.n < 1 \/ q.frac

MergedQuantity_Overwrite(existingQuantity, quantity) == quantity

\* finalQuantity = existingItem.quantity + quantity
MergedQuantity(existingQuantity, quantity) == existingQuantity + quantity

StockExceeded_OffByOne(finalQuantity, stockQuantity) ==
    finalQuantity > stockQuantity + 1

StockExceeded_Never(finalQuantity, stockQuantity) == FALSE

\* if (finalQuantity > stockQuantity) throw   (addToCart)
StockExceeded(finalQuantity, stockQuantity) == finalQuantity > stockQuantity

QuantityOverStock_OffByOne(quantity, stockQuantity) == quantity > stockQuantity + 1

\* if (quantity > stockQuantity) throw   (updateCartItemQuantity)
QuantityOverStock(quantity, stockQuantity) == quantity > stockQuantity

\* select('*').eq('id', productId).eq('is_active', true).single()
ActiveProduct(productId) ==
    productId \in DOMAIN products /\ products[productId].is_active

\* addToCart 1-2: the outcome of selecting the product and checking its stock.
ProductCheck(productId) ==
    IF ~ActiveProduct(productId) THEN Thrown(ErrorOf(MsgProductNotFound), MsgAddFailed)
    ELSE IF products[productId].stock_quantity <= 0
         THEN Thrown(ErrorOf(MsgSoldOut), MsgAddFailed)
    ELSE [pc |-> "addToCart_existing",
          stockQuantity |-> products[productId].stock_quantity]

\* addToCartAction: authentication, input validation, then addToCart 1-2.
AddToCartAction(s, userId, productId, q) ==
    /\ \E outcome \in
            IF Unauthenticated(userId) THEN {Returned(MsgLoginRequired)}
            ELSE IF productId = EmptyString THEN {Returned(MsgProductIdRequired)}
            ELSE IF QuantityRejected(q) THEN {Returned(MsgQuantityInvalid)}
            ELSE Faults(MsgAddFailed) \cup {ProductCheck(productId)} :
          Begin(s, Request("addToCart", userId,
                           [productId |-> productId, quantity |-> q] @@ outcome))
    /\ UNCHANGED <<db, adminOps, stockTouched, addLog, listing, client>>

\* addToCart 3: select the existing row with .single() (no row, or more than
\* one, is the PGRST116 "none" outcome), then the stock check on the result.
AddToCart_Existing(s) ==
    /\ req[s].pc = "addToCart_existing"
    /\ \/ StorageFault(s, MsgAddFailed)
       \/ LET matching == RowsOf(cart_items, req[s].userId, req[s].productId)
              existingItem == IF Cardinality(matching) = 1
                              THEN CHOOSE r \in matching : TRUE ELSE NoRow
              finalQuantity == IF existingItem # NoRow
                               THEN MergedQuantity(existingItem.quantity, req[s].quantity.n)
                               ELSE req[s].quantity.n
          IN  IF StockExceeded(finalQuantity, req[s].stockQuantity)
              THEN req' = [Settled EXCEPT ![s].pc = "done",
                                          ![s].existingItem = existingItem,
                                          ![s].finalQuantity = finalQuantity,
                                          ![s].result = MsgStockExceeded]
              ELSE req' = [Settled EXCEPT ![s].pc = "addToCart_write",
                                          ![s].existingItem = existingItem,
                                          ![s].finalQuantity = finalQuantity]
    /\ UNCHANGED <<db, calls, adminOps, stockTouched, addLog, listing, client>>

\* addToCart: update the existing row by id, or insert a new row.
AddToCart_Write(s) ==
    /\ req[s].pc = "addToCart_write"
    /\ \/ /\ StorageFault(s, MsgAddFailed)
          /\ UNCHANGED <<cart_items, nextCartId, addLog>>
       \/ /\ req[s].existingItem # NoRow
          /\ \E r \in cart_items : r.id = req[s].existingItem.id
          /\ cart_items' = {IF r.id = req[s].existingItem.id
                            THEN [r EXCEPT !.quantity = req[s].finalQuantity] ELSE r
                            : r \in cart_items}
          /\ req' = [Settled EXCEPT ![s].pc = "done", ![s].result = Ok,
                                    ![s].writes = @ \cup {"cart_items"}]
          /\ addLog' = [addLog EXCEPT ![req[s].userId][req[s].productId].adds =
                                         Append(@, req[s].quantity.n)]
          /\ UNCHANGED nextCartId
       \/ \* the row was deleted meanwhile: .single() on zero updated rows
          /\ req[s].existingItem # NoRow
          /\ ~\E r \in cart_items : r.id = req[s].existingItem.id
          /\ \E e \in StorageErrors : Throw(s, e, MsgAddFailed)
          /\ UNCHANGED <<cart_items, nextCartId, addLog>>
       \/ /\ req[s].existingItem = NoRow
          /\ cart_items' = cart_items \cup
                {[id |-> nextCartId, clerk_id |-> req[s].userId,
                  product_id |-> req[s].productId, quantity |-> req[s].finalQuantity]}
          /\ nextCartId' = nextCartId + 1
          /\ req' = [Settled EXCEPT ![s].pc = "done", ![s].result = Ok,
                                    ![s].writes = @ \cup {"cart_items"}]
          /\ addLog' = [addLog EXCEPT ![req[s].userId][req[s].productId].adds =
                                         Append(@, req[s].quantity.n)]
    /\ UNCHANGED <<products, orders, order_items, nextOrderId, calls, adminOps,
                   stockTouched, listing, client>>

\* updateCartItemQuantity 2-3: the outcome of selecting the row joined with
\* its product and checking the active flag and the stock.
ItemCheck(cartItemId, quantity) ==
    LET found == {r \in cart_items : r.id = cartItemId}
        cartItem == CHOOSE r \in found : TRUE
    IN  IF found = {} THEN Thrown(ErrorOf(MsgCartItemNotFound), MsgUpdateFailed)
        ELSE IF ~ActiveProduct(cartItem.product_id)
             THEN Thrown(ErrorOf(MsgProductInactive), MsgUpdateFailed)
        ELSE IF QuantityOverStock(quantity, products[cartItem.product_id].stock_quantity)
             THEN [pc |-> "done", result |-> MsgStockExceeded, existingItem |-> cartItem,
                   stockQuantity |-> products[cartItem.product_id].stock_quantity]
        ELSE [pc |-> "updateCartItem_write", existingItem |-> cartItem,
              stockQuantity |-> products[cartItem.product_id].stock_quantity]

\* updateCartItemAction: authentication, input validation, then
\* updateCartItemQuantity 1-3.
UpdateCartItemAction(s, userId, cartItemId, q) ==
    /\ \E outcome \in
            IF Unauthenticated(userId) THEN {Returned(MsgLoginRequired)}
            ELSE IF cartItemId = EmptyId THEN {Returned(MsgCartItemIdRequired)}
            ELSE IF QuantityRejected(q) THEN {Returned(MsgQuantityInvalid)}
            ELSE IF q.n < 1 THEN {Thrown(ErrorOf(MsgQuantityBelowOne), MsgUpdateFailed)}
            ELSE Faults(MsgUpdateFailed) \cup {ItemCheck(cartItemId, q.n)} :
          Begin(s, Request("updateCartItem", userId,
                           [cartItemId |-> cartItemId, quantity |-> q] @@ outcome))
    /\ UNCHANGED <<db, adminOps, stockTouched, addLog, listing, client>>

UpdatedRow_Add(r, quantity) == [r EXCEPT !.quantity = @ + quantity]

\* update({ quantity }): the row with its quantity overwritten
UpdatedRow(r, quantity) == [r EXCEPT !.quantity = quantity]

\* updateCartItemQuantity 4: update({ quantity }).eq('id', cartItemId).single()
UpdateCartItem_Write(s) ==
    /\ req[s].pc = "updateCartItem_write"
    /\ \/ /\ StorageFault(s, MsgUpdateFailed)
          /\ UNCHANGED <<cart_items, addLog>>
       \/ /\ \E r \in cart_items : r.id = req[s].cartItemId
          /\ LET newCart == {IF r.id = req[s].cartItemId
                             THEN UpdatedRow(r, req[s].quantity.n) ELSE r
                             : r \in cart_items}
             IN  /\ cart_items' = newCart
                 /\ addLog' = AddLogAfter(newCart)
          /\ req' = [Settled EXCEPT ![s].pc = "done", ![s].result = Ok,
                                    ![s].writes = @ \cup {"cart_items"}]
       \/ /\ ~\E r \in cart_items : r.id = req[s].cartItemId
          /\ \E e \in StorageErrors : Throw(s, e, MsgUpdateFailed)
          /\ UNCHANGED <<cart_items, addLog>>
    /\ UNCHANGED <<products, orders, order_items, nextCartId, nextOrderId, calls,
                   adminOps, stockTouched, listing, client>>

\* removeCartItem: the rows left by delete().eq('id', cartItemId)
RemoveCartItemRows(rows, cartItemId) == {r \in rows : r.id # cartItemId}

ClearCartRows_Neq(rows, clerkId) == {r \in rows : r.clerk_id = clerkId}

\* clearCart: the rows left by delete().eq('clerk_id', clerkId)
ClearCartRows(rows, clerkId) == {r \in rows : r.clerk_id # clerkId}

\* A request whose one storage statement is a delete: it fails validation,
\* the delete faults, or the rows in `newCart` are left.
DeleteRequest(s, op, userId, fields, rejected, generic, newCart) ==
    \/ /\ rejected # Ok
       /\ Begin(s, Request(op, userId, fields @@ Returned(rejected)))
       /\ UNCHANGED <<cart_items, addLog>>
    \/ /\ rejected = Ok
       /\ \E outcome \in Faults(generic) : Begin(s, Request(op, userId, fields @@ outcome))
       /\ UNCHANGED <<cart_items, addLog>>
    \/ /\ rejected = Ok
       /\ Begin(s, Request(op, userId,
                           fields @@ [pc |-> "done", result |-> Ok,
                                      writes |-> {"cart_items"}]))
       /\ cart_items' = newCart
       /\ addLog' = AddLogAfter(newCart)

\* removeCartItemAction: authentication, input validation, removeCartItem.
RemoveCartItemAction(s, userId, cartItemId) ==
    /\ DeleteRequest(s, "removeCartItem", userId, [cartItemId |-> cartItemId],
                     IF Unauthenticated(userId) THEN MsgLoginRequired
                     ELSE IF cartItemId = EmptyId THEN MsgCartItemIdRequired ELSE Ok,
                     MsgRemoveFailed, RemoveCartItemRows(cart_items, cartItemId))
    /\ UNCHANGED <<products, orders, order_items, nextCartId, nextOrderId, adminOps,
                   stockTouched, listing, client>>

\* clearCartAction: authentication, clearCart.
ClearCartAction(s, userId) ==
    /\ DeleteRequest(s, "clearCart", userId, [cartItemId |-> EmptyId],
                     IF Unauthenticated(userId) THEN MsgLoginRequired ELSE Ok,
                     MsgClearFailed, ClearCartRows(cart_items, userId))
    /\ UNCHANGED <<products, orders, order_items, nextCartId, nextOrderId, adminOps,
                   stockTouched, listing, client>>

\* getCartItemCount: select('*', { count: 'exact', head: true }), count || 0
GetCartItemCount(clerkId) == Cardinality({r \in cart_items : r.clerk_id = clerkId})

\* getCartItemCountAction: authentication, getCartItemCount.
GetCartItemCountAction(s, userId) ==
    /\ \E outcome \in
            IF Unauthenticated(userId) THEN {Returned(MsgLoginRequired)}
            ELSE Faults(MsgCountFailed)
                 \cup {[pc |-> "done", result |-> Ok,
                        count |-> GetCartItemCount(userId)]} :
          Begin(s, Request("getCartItemCount", userId, outcome))
    /\ UNCHANGED <<db, adminOps, stockTouched, addLog, listing, client>>

\* Rows in created_at descending order.
RECURSIVE NewestFirst(_)
NewestFirst(rows) ==
    IF rows = {} THEN <<>>
    ELSE LET newest == CHOOSE r \in rows : \A o \in rows : o.id <= r.id
         IN  <<newest>> \o NewestFirst(rows \ {newest})

\* getCartItems: the user's rows joined with their current product rows, rows
\* whose product does not resolve filtered out.
GetCartItems(clerkId) ==
    LET data == NewestFirst({r \in cart_items : r.clerk_id = clerkId})
        resolved == SelectSeq(data, LAMBDA r : r.product_id \in DOMAIN products)
    IN  [i \in 1..Len(resolved) |->
            [id |-> resolved[i].id, clerk_id |-> resolved[i].clerk_id,
             product_id |-> resolved[i].product_id, quantity |-> resolved[i].quantity,
             product |-> products[resolved[i].product_id]]]

RECURSIVE SummaryLoop_NoQuantity(_, _, _)
SummaryLoop_NoQuantity(cartItems, totalItems, totalAmount) ==
    IF cartItems = <<>> THEN [totalItems |-> totalItems, totalAmount |-> totalAmount]
    ELSE SummaryLoop_NoQuantity(Tail(cartItems),
                                totalItems + Head(cartItems).quantity,
                                totalAmount + Head(cartItems).product.price)

\* for (const item of cartItems) { totalItems += ...; totalAmount += ... }
RECURSIVE SummaryLoop(_, _, _)
SummaryLoop(cartItems, totalItems, totalAmount) ==
    IF cartItems = <<>> THEN [totalItems |-> totalItems, totalAmount |-> totalAmount]
    ELSE SummaryLoop(Tail(cartItems),
                     totalItems + Head(cartItems).quantity,
                     totalAmount + Head(cartItems).product.price * Head(cartItems).quantity)

\* getCartSummary
GetCartSummary(clerkId) ==
    LET sums == SummaryLoop(GetCartItems(clerkId), 0, 0)
    IN  [totalItems |-> sums.totalItems, totalAmount |-> sums.totalAmount,
         shippingFee |-> ShippingFee, grandTotal |-> sums.totalAmount + ShippingFee]


\* ---------------------------------------------------------- order workflow
Abs(x) == IF x < 0 THEN -x ELSE x

\* typeof expectedTotalAmount !== 'number' || expectedTotalAmount <= 0
\* (NaN is of type number and compares false with everything).
ExpectedRejected(e) ==
    e.type \notin {"number", "NaN"} \/ (e.type = "number" /\ e.val <= 0)

AmountMismatch_Never(grandTotal, e) == FALSE

AmountMismatch_NoAbs(grandTotal, e) ==
    e.type = "number" /\ grandTotal - e.val > Tolerance

\* Math.abs(grandTotal - expectedTotalAmount) > 0.01
AmountMismatch(grandTotal, e) ==
    e.type = "number" /\ Abs(grandTotal - e.val) > Tolerance

CartIsEmpty_Never(cartItems) == Len(cartItems) < 0

\* cartItems.length === 0
CartIsEmpty(cartItems) == Len(cartItems) = 0

OrderRow_ClientTotal(id, userId, grandTotal, e) ==
    [id |-> id, clerk_id |-> userId, total_amount |-> e.val, status |-> "pending"]

\* The row inserted into orders.
OrderRow(id, userId, grandTotal, e) ==
    [id |-> id, clerk_id |-> userId, total_amount |-> grandTotal, status |-> "pending"]

OrderItemsData_OtherName(orderId, cartItems) ==
    {[order_id |-> orderId, line |-> cartItems[i].id,
      product_id |-> cartItems[i].product_id,
      product_name |-> CHOOSE name \in Names : name # cartItems[i].product.name,
      quantity |-> cartItems[i].quantity,
      price |-> cartItems[i].product.price] : i \in 1..Len(cartItems)}

\* orderItemsData: one line per item of the cart snapshot.
OrderItemsData(orderId, cartItems) ==
    {[order_id |-> orderId, line |-> cartItems[i].id,
      product_id |-> cartItems[i].product_id,
      product_name |-> cartItems[i].product.name,
      quantity |-> cartItems[i].quantity,
      price |-> cartItems[i].product.price] : i \in 1..Len(cartItems)}

\* The expected totals a client submits: around the total of the cart as it
\* stands, not-a-number, or no number at all.
ExpectedInputs(userId) ==
    LET shown == IF userId \in Users THEN GetCartSummary(userId).grandTotal ELSE 0
    IN  {[type |-> "number", val |-> shown + d] : d \in ExpectedDeltas}
        \cup {[type |-> "NaN", val |-> 0], [type |-> "undefined", val |-> 0]}

\* createOrderAction 3: the outcome of the cart snapshot.
SnapshotCheck(userId) ==
    IF CartIsEmpty(GetCartItems(userId))
    THEN [pc |-> "done", result |-> MsgCartEmpty, cartItems |-> GetCartItems(userId)]
    ELSE [pc |-> "createOrder_getCartSummary", cartItems |-> GetCartItems(userId)]

\* createOrderAction 1-3: authentication, input validation, cart snapshot.
CreateOrderAction(s, userId, shippingAddress, e) ==
    /\ \E outcome \in
            IF Unauthenticated(userId) THEN {Returned(MsgLoginRequired)}
            ELSE IF ~shippingAddress THEN {Returned(MsgAddressRequired)}
            ELSE IF ExpectedRejected(e) THEN {Returned(MsgAmountInvalid)}
            ELSE Faults(MsgOrderFailed) \cup {SnapshotCheck(userId)} :
          Begin(s, Request("createOrder", userId,
                           [shippingAddress |-> shippingAddress,
                            expectedTotalAmount |-> e] @@ outcome))
    /\ UNCHANGED <<db, adminOps, stockTouched, addLog, listing, client>>

\* createOrderAction 4-5: recompute the total, reconcile it with the client's.
CreateOrder_GetCartSummary(s) ==
    /\ req[s].pc = "createOrder_getCartSummary"
    /\ \/ StorageFault(s, MsgOrderFailed)
       \/ LET cartSummary == GetCartSummary(req[s].userId)
          IN  IF AmountMismatch(cartSummary.grandTotal, req[s].expectedTotalAmount)
              THEN req' = [Settled EXCEPT ![s].pc = "done",
                                      ![s].grandTotal = cartSummary.grandTotal,
                                      ![s].result = MsgAmountChanged]
              ELSE req' = [Settled EXCEPT ![s].pc = "createOrder_insertOrder",
                                      ![s].grandTotal = cartSummary.grandTotal]
    /\ UNCHANGED <<db, calls, adminOps, stockTouched, addLog, listing, client>>

\* createOrderAction 7: insert the orders row.
CreateOrder_InsertOrder(s) ==
    /\ req[s].pc = "createOrder_insertOrder"
    /\ \/ /\ req' = [Settled EXCEPT ![s].pc = "done", ![s].faulted = TRUE,
                                ![s].result = MsgOrderStorage]
          /\ UNCHANGED <<orders, nextOrderId>>
       \/ /\ orders' = orders \cup
                {OrderRow(nextOrderId, req[s].userId, req[s].grandTotal,
                          req[s].expectedTotalAmount)}
          /\ nextOrderId' = nextOrderId + 1
          /\ req' = [Settled EXCEPT ![s].pc = "createOrder_insertItems",
                                ![s].orderId = nextOrderId,
                                ![s].writes = @ \cup {"orders"}]
    /\ UNCHANGED <<products, cart_items, order_items, nextCartId, calls, adminOps,
                   stockTouched, addLog, listing, client>>

ItemsInsertFailed_FallThrough == [pc |-> "createOrder_clearCart", result |-> "none"]

\* if (orderItemsError) return { success: false, error: ... }
ItemsInsertFailed == [pc |-> "done", result |-> MsgOrderItemsStorage]

RECURSIVE ProductsAfterOrder_Deduct(_, _)
ProductsAfterOrder_Deduct(rows, cartItems) ==
    IF cartItems = <<>> THEN rows
    ELSE ProductsAfterOrder_Deduct(
             [rows EXCEPT ![Head(cartItems).product_id].stock_quantity =
                              @ - Head(cartItems).quantity],
             Tail(cartItems))

\* The products table after the line items of an order are stored: the
\* workflow issues no statement on products.
ProductsAfterOrder(rows, cartItems) == rows

\* createOrderAction 8: insert the order_items batch.
CreateOrder_InsertItems(s) ==
    /\ req[s].pc = "createOrder_insertItems"
    /\ \/ /\ req' = [Settled EXCEPT ![s].pc = ItemsInsertFailed.pc,
                                ![s].faulted = TRUE,
                                ![s].result = ItemsInsertFailed.result]
          /\ UNCHANGED <<order_items, products>>
       \/ /\ order_items' = order_items \cup
                               OrderItemsData(req[s].orderId, req[s].cartItems)
          /\ products' = ProductsAfterOrder(products, req[s].cartItems)
          /\ req' = [Settled EXCEPT ![s].pc = "createOrder_clearCart",
                                ![s].writes = @ \cup {"order_items"}]
    /\ UNCHANGED <<cart_items, orders, nextCartId, nextOrderId, calls,
                   adminOps, stockTouched, addLog, listing, client>>

\* createOrderAction 9: clear the cart, then return the order id.
CreateOrder_ClearCart(s) ==
    /\ req[s].pc = "createOrder_clearCart"
    /\ \/ /\ StorageFault(s, MsgOrderFailed)
          /\ UNCHANGED <<cart_items, addLog>>
       \/ LET newCart == ClearCartRows(cart_items, req[s].userId)
          IN  /\ cart_items' = newCart
              /\ addLog' = AddLogAfter(newCart)
              /\ req' = [Settled EXCEPT ![s].pc = "done", ![s].result = Ok,
                                    ![s].writes = @ \cup {"cart_items"}]
    /\ UNCHANGED <<products, orders, order_items, nextCartId, nextOrderId, calls,
                   adminOps, stockTouched, listing, client>>

\* ------------------------------------------------ out-of-band product updates
UpdateProduct(id, name, price, stock, active) ==
    /\ adminOps < MaxAdminOps
    /\ LET row == [name |-> name, price |-> price, stock_quantity |-> stock,
                   is_active |-> active]
           changed == {f \in DOMAIN row : row[f] # products[id][f]}
       IN  /\ Cardinality(changed) = 1
           /\ products' = [products EXCEPT ![id] = row]
    /\ stockTouched' = IF stock # products[id].stock_quantity
                       THEN stockTouched \cup {id} ELSE stockTouched
    /\ adminOps' = adminOps + 1
    /\ req' = Settled
    /\ UNCHANGED <<cart_items, orders, order_items, nextCartId, nextOrderId, calls,
                   addLog, listing, client>>

\* ---------------------------------------------------------- product queries
\* The catalog the product queries are run against, and their arguments.
CatalogIds == {"p1", "p2", "p3"}
MissingProduct == "p0"
CategoryInputs == {"null", "all", "electronics"}
SortOptions == {"latest", "price-asc", "price-desc", "popularity"}
LimitInputs == 0..MaxLimit
PageInputs == 0..MaxPage

\* A products table of three rows created in the order p1, p2, p3, two of them
\* at the same price, in two categories.
Catalog(active) ==
    [id \in CatalogIds |->
        [price |-> IF id = "p1" THEN 1000 ELSE 500,
         stock_quantity |-> 1,
         is_active |-> active[id],
         category |-> IF id = "p2" THEN "books" ELSE "electronics",
         created_at |-> IF id = "p1" THEN 1 ELSE IF id = "p2" THEN 2 ELSE 3]]

\* The order_items rows of n[id] earlier order lines per product, the k-th
\* of quantity k.
SalesRows(n) ==
    {[order_id |-> x[2], line |-> products[x[1]].created_at, product_id |-> x[1],
      quantity |-> x[2], price |-> products[x[1]].price]
        : x \in {y \in CatalogIds \X (1..MaxSales) : n[y[1]] >= y[2]}}

\* A products row as a query returns it.
ProductRow(id) ==
    [id |-> id, price |-> products[id].price,
     stock_quantity |-> products[id].stock_quantity,
     is_active |-> products[id].is_active, category |-> products[id].category,
     created_at |-> products[id].created_at]

\* if (category && category !== 'all') query = query.eq('category', category)
MatchesCategory(id, category) ==
    category \notin {"null", "all"} => products[id].category = category

ActiveRows_All(category) ==
    {ProductRow(id) : id \in {i \in DOMAIN products : MatchesCategory(i, category)}}

\* from('products').select('*').eq('is_active', true) [.eq('category', ...)]
ActiveRows(category) ==
    {ProductRow(id) : id \in {i \in DOMAIN products :
                                 products[i].is_active /\ MatchesCategory(i, category)}}

RECURSIVE Orderings(_)
Orderings(rows) ==
    IF rows = {} THEN {<<>>}
    ELSE UNION {{<<r>> \o rest : rest \in Orderings(rows \ {r})} : r \in rows}

\* The sequences a sort of `rows` by key (a number per row) can return: rows
\* with equal keys come in any order (the storage promises none).
Sorted(rows, key, ascending) ==
    {seq \in Orderings(rows) :
        \A i \in 1..(Len(seq) - 1) :
            IF ascending THEN key[seq[i]] <= key[seq[i + 1]]
            ELSE key[seq[i]] >= key[seq[i + 1]]}

LatestFirst_Oldest(rows) == Sorted(rows, [r \in rows |-> r.created_at], TRUE)

\* .order('created_at', { ascending: false })
LatestFirst(rows) == Sorted(rows, [r \in rows |-> r.created_at], FALSE)

BySales_Ascending(rows, salesMap) ==
    Sorted(rows, [r \in rows |-> salesMap[r.id]], TRUE)

\* .sort((a, b) => (b._salesCount || 0) - (a._salesCount || 0))
BySales(rows, salesMap) == Sorted(rows, [r \in rows |-> salesMap[r.id]], FALSE)

Min(a, b) == IF a < b THEN a ELSE b
Max(a, b) == IF a > b THEN a ELSE b

\* array.slice(from, to) and array.slice(0, n) / .limit(n), for from, n >= 0
Slice(seq, from, to) ==
    IF from >= Len(seq) \/ to <= from THEN <<>>
    ELSE SubSeq(seq, from + 1, Min(to, Len(seq)))
Take(seq, n) == Slice(seq, 0, n)

\* salesMap: the quantities of the order_items rows added up per product_id
RECURSIVE SalesLoop(_, _)
SalesLoop(salesData, salesMap) ==
    IF salesData = {} THEN salesMap
    ELSE LET item == CHOOSE i \in salesData : TRUE
             currentTotal == IF item.product_id \in DOMAIN salesMap
                             THEN salesMap[item.product_id] ELSE 0
         IN  SalesLoop(salesData \ {item},
                       [id \in DOMAIN salesMap \cup {item.product_id} |->
                           IF id = item.product_id THEN currentTotal + item.quantity
                           ELSE salesMap[id]])
SalesMap(salesData) == SalesLoop(salesData, <<>>)

\* Math.ceil(totalCount / limit)
Ceil(totalCount, limit) ==
    IF totalCount % limit = 0 THEN totalCount \div limit ELSE totalCount \div limit + 1

TotalPages_Floor(totalCount, limit) == Max(1, totalCount \div limit)

\* Math.max(1, Math.ceil(totalCount / validLimit))
TotalPages(totalCount, limit) == Max(1, Ceil(totalCount, limit))

\* validPage > totalPages ? totalPages : validPage
AdjustedPage(page, totalPages) == IF page > totalPages THEN totalPages ELSE page

\* What a product query leaves alone.
cartVars == <<cart_items, orders, nextCartId, nextOrderId, req, calls, stockTouched,
              addLog, client>>

\* The record of a product query that starts / goes on with `fields`.
Listing(op, fields) ==
    [f \in DOMAIN IdleListing |->
        IF f \in DOMAIN fields THEN fields[f]
        ELSE IF f = "op" THEN op
        ELSE IdleListing[f]]
Continue(fields) ==
    [f \in DOMAIN listing |-> IF f \in DOMAIN fields THEN fields[f] ELSE listing[f]]

\* if (error) throw error / return products
ListingThrown == [pc |-> "done", status |-> "thrown"]
ListingReturned(rows) == [pc |-> "done", status |-> "returned", products |-> rows]
ListingAt(pc, rows) == [pc |-> pc, status |-> "running", products |-> rows]

\* A query of the call came back with an error that the function does not
\* rethrow: it goes on with what it has.
QueryFailed(fields) == [failed |-> TRUE] @@ fields

ValidPage == Max(1, listing.page)
ValidLimit == Max(1, listing.limit)

\* getActiveProducts / getActiveProductsServer
GetActiveProducts(op) ==
    /\ listing.status = "idle"
    /\ \E outcome \in {ListingThrown}
                      \cup {ListingReturned(rows) : rows \in LatestFirst(ActiveRows("null"))} :
          listing' = Listing(op, outcome)
    /\ UNCHANGED <<products, order_items, adminOps, cartVars>>

\* getPopularProducts 5: if (popularProducts.length === 0) fall back
AfterBackfill(popular) ==
    IF Len(popular) = 0 THEN ListingAt("popular_fallback", popular)
    ELSE ListingReturned(popular)

\* getPopularProducts 4: if (popularProducts.length < limit) backfill
AfterSales(popular, limit) ==
    IF Len(popular) < limit THEN ListingAt("popular_latest", popular)
    ELSE AfterBackfill(popular)

\* getPopularProducts 1-2: read order_items and add up the sales.
GetPopularProducts(limit) ==
    /\ listing.status = "idle"
    /\ \E outcome \in
            {QueryFailed(ListingAt("popular_getActiveProducts", <<>>))}
            \cup {LET salesMap == SalesMap(order_items)
                  IN  [salesMap |-> salesMap]
                      @@ (IF DOMAIN salesMap # {} THEN ListingAt("popular_withSales", <<>>)
                          ELSE AfterSales(<<>>, limit))} :
          listing' = Listing("getPopularProducts", [limit |-> limit] @@ outcome)
    /\ UNCHANGED <<products, order_items, adminOps, cartVars>>

\* getPopularProducts, salesError: getActiveProducts().slice(0, limit)
Popular_GetActiveProducts ==
    /\ listing.pc = "popular_getActiveProducts"
    /\ \E outcome \in {ListingThrown}
                      \cup {ListingReturned(Take(rows, listing.limit))
                               : rows \in LatestFirst(ActiveRows("null"))} :
          listing' = Continue(outcome)
    /\ UNCHANGED <<products, order_items, adminOps, cartVars>>

\* getPopularProducts 3: the active products that have sales, by sales.
Popular_WithSales ==
    /\ listing.pc = "popular_withSales"
    /\ \E outcome \in
            {QueryFailed(AfterSales(<<>>, listing.limit))}
            \cup {AfterSales(Take(sorted, listing.limit), listing.limit)
                     : sorted \in BySales({r \in ActiveRows("null") :
                                              r.id \in DOMAIN listing.salesMap},
                                          listing.salesMap)} :
          listing' = Continue(outcome)
    /\ UNCHANGED <<products, order_items, adminOps, cartVars>>

\* getPopularProducts 4: backfill with the latest active products.
Popular_Latest ==
    /\ listing.pc = "popular_latest"
    /\ \E outcome \in
            {QueryFailed(AfterBackfill(listing.products))}
            \cup {LET existingIds == {listing.products[i].id
                                         : i \in 1..Len(listing.products)}
                      additionalProducts ==
                          SelectSeq(Take(latest, listing.limit),
                                    LAMBDA p : p.id \notin existingIds)
                  IN  AfterBackfill(listing.products
                                    \o Take(additionalProducts,
                                            listing.limit - Len(listing.products)))
                     : latest \in LatestFirst(ActiveRows("null"))} :
          listing' = Continue(outcome)
    /\ UNCHANGED <<products, order_items, adminOps, cartVars>>

\* getPopularProducts 5: the latest active products.
Popular_Fallback ==
    /\ listing.pc = "popular_fallback"
    /\ \E outcome \in {ListingThrown}
                      \cup {ListingReturned(Take(latest, listing.limit))
                               : latest \in LatestFirst(ActiveRows("null"))} :
          listing' = Continue(outcome)
    /\ UNCHANGED <<products, order_items, adminOps, cartVars>>

\* switch (sortBy): the order of the page query
PageOrder(rows, sortBy) ==
    IF sortBy = "price-asc" THEN Sorted(rows, [r \in rows |-> r.price], TRUE)
    ELSE IF sortBy = "price-desc" THEN Sorted(rows, [r \in rows |-> r.price], FALSE)
    ELSE LatestFirst(rows)

\* getProductsWithPagination, sortBy other than popularity: one query with an
\* exact count and a range, then the page arithmetic.
PageQuery(category, validPage, validLimit, sortBy) ==
    {ListingThrown}
    \cup {LET offset == (validPage - 1) * validLimit
              totalCount == Len(sorted)
              totalPages == TotalPages(totalCount, validLimit)
          IN  [pc |-> "done", status |-> "returned",
               products |-> Slice(sorted, offset, offset + validLimit),
               totalCount |-> totalCount,
               totalPages |-> totalPages,
               currentPage |-> AdjustedPage(validPage, totalPages)]
             : sorted \in PageOrder(ActiveRows(category), sortBy)}

\* getProductsWithPagination: validation, then the page query or, for
\* popularity, the order_items read of getProductsWithPaginationByPopularity.
PageCall(category, page, limit, sortBy) ==
    {[category |-> category, page |-> page, limit |-> limit, sortBy |-> sortBy]
     @@ outcome
        : outcome \in
             IF sortBy = "popularity"
             THEN {QueryFailed(ListingAt("page_latest", <<>>)),
                   IF order_items = {} THEN ListingAt("page_latest", <<>>)
                   ELSE [salesMap |-> SalesMap(order_items)]
                        @@ ListingAt("page_count", <<>>)}
             ELSE PageQuery(category, Max(1, page), Max(1, limit), sortBy)}

GetProductsWithPagination(category, page, limit, sortBy) ==
    /\ listing.status = "idle"
    /\ \E call \in PageCall(category, page, limit, sortBy) :
          listing' = Listing("getProductsWithPagination", call)
    /\ UNCHANGED <<products, order_items, adminOps, cartVars>>

\* The products page is left through its "next" control: the page is
\* requested again with page = currentPage + 1 and the same category, limit
\* and sort option.  `shown` keeps the product ids of the pages left so far.
NextPage ==
    /\ listing.op = "getProductsWithPagination"
    /\ listing.status = "returned"
    /\ listing.currentPage < listing.totalPages
    /\ \E call \in PageCall(listing.category, listing.currentPage + 1, listing.limit,
                             listing.sortBy) :
          listing' = Listing("getProductsWithPagination",
                             call @@ [failed |-> listing.failed,
                                      changed |-> listing.changed,
                                      shown |-> Append(listing.shown,
                                                       {listing.products[i].id
                                                           : i \in 1..Len(listing.products)})])
    /\ UNCHANGED <<products, order_items, adminOps, cartVars>>

\* ByPopularity, no sales data: getProductsWithPagination({ sortBy: 'latest' })
Page_Latest ==
    /\ listing.pc = "page_latest"
    /\ \E outcome \in PageQuery(listing.category, Max(1, ValidPage),
                                Max(1, ValidLimit), "latest") :
          listing' = Continue(outcome)
    /\ UNCHANGED <<products, order_items, adminOps, cartVars>>

\* ByPopularity 3: the count query and the page arithmetic.
Page_Count ==
    /\ listing.pc = "page_count"
    /\ \E outcome \in
            {ListingThrown}
            \cup {LET totalCount == Cardinality(ActiveRows(listing.category))
                      totalPages == TotalPages(totalCount, ValidLimit)
                  IN  [pc |-> "page_withSales", status |-> "running",
                       totalCount |-> totalCount, totalPages |-> totalPages,
                       currentPage |-> AdjustedPage(ValidPage, totalPages)]} :
          listing' = Continue(outcome)
    /\ UNCHANGED <<products, order_items, adminOps, cartVars>>

\* ByPopularity 4-5: the products with sales, by sales, cut to the page.
Page_WithSales ==
    /\ listing.pc = "page_withSales"
    /\ \E outcome \in
            {ListingThrown}
            \cup {LET offset == (listing.currentPage - 1) * ValidLimit
                      paginated == Slice(sorted, offset, offset + ValidLimit)
                  IN  IF Len(paginated) < ValidLimit
                      THEN ListingAt("page_noSales", paginated)
                      ELSE ListingReturned(paginated)
                     : sorted \in BySales({r \in ActiveRows(listing.category) :
                                              r.id \in DOMAIN listing.salesMap},
                                          listing.salesMap)} :
          listing' = Continue(outcome)
    /\ UNCHANGED <<products, order_items, adminOps, cartVars>>

\* idsToExclude, applied when productIdsWithSales is not empty and the list
\* has at most 100 entries
ExcludedIds(existingIds, productIdsWithSales) ==
    IF /\ productIdsWithSales # {}
       /\ Cardinality(existingIds \cup productIdsWithSales) <= 100
    THEN existingIds \cup productIdsWithSales
    ELSE existingIds

\* ByPopularity 6: fill the page with the latest products without sales.
Page_NoSales ==
    /\ listing.pc = "page_noSales"
    /\ \E outcome \in
            {QueryFailed(ListingReturned(listing.products))}
            \cup {ListingReturned(
                      listing.products
                      \o Take(latest, ValidLimit - Len(listing.products)))
                     : latest \in
                          LET existingIds == {listing.products[i].id
                                                 : i \in 1..Len(listing.products)}
                              excluded == ExcludedIds(existingIds,
                                                      DOMAIN listing.salesMap)
                          IN  LatestFirst({r \in ActiveRows(listing.category) :
                                              r.id \notin excluded})} :
          listing' = Continue(outcome)
    /\ UNCHANGED <<products, order_items, adminOps, cartVars>>

\* getProductById: .eq('id', id).eq('is_active', true).single(); no row is
\* PGRST116 and returns null.
GetProductById(id) ==
    /\ listing.status = "idle"
    /\ \E outcome \in
            {ListingThrown,
             ListingReturned(IF id \in {r.id : r \in ActiveRows("null")}
                             THEN <<ProductRow(id)>> ELSE <<>>)} :
          listing' = Listing("getProductById", [id |-> id] @@ outcome)
    /\ UNCHANGED <<products, order_items, adminOps, cartVars>>

\* A product is activated or deactivated while a product query is in flight.
ToggleProduct(id) ==
    /\ listing.status = "running"
    /\ adminOps < MaxAdminOps
    /\ products' = [products EXCEPT ![id].is_active = ~@]
    /\ adminOps' = adminOps + 1
    /\ listing' = [listing EXCEPT !.changed = TRUE]
    /\ UNCHANGED <<order_items, cartVars>>

\* Product queries, one call per behaviour, on every catalog and sales history.
ListingInit ==
    /\ \E active \in [CatalogIds -> BOOLEAN] : products = Catalog(active)
    /\ \E n \in [CatalogIds -> 0..MaxSales] : order_items = SalesRows(n)
    /\ cart_items = {}
    /\ orders = {}
    /\ nextCartId = 1
    /\ nextOrderId = 1
    /\ req = [s \in Slots |-> Idle]
    /\ calls = 0
    /\ adminOps = 0
    /\ stockTouched = {}
    /\ addLog = [u \in Users |-> [id \in ProductIds |-> CleanLog]]
    /\ listing = IdleListing
    /\ client = IdleClient

ListingInvoke ==
    \/ \E op \in {"getActiveProducts", "getActiveProductsServer"} : GetActiveProducts(op)
    \/ \E limit \in LimitInputs : GetPopularProducts(limit)
    \/ \E category \in CategoryInputs, page \in PageInputs, limit \in LimitInputs,
          sortBy \in SortOptions :
        GetProductsWithPagination(category, page, limit, sortBy)
    \/ \E id \in CatalogIds \cup {MissingProduct} : GetProductById(id)

ListingStep ==
    \/ Popular_GetActiveProducts
    \/ Popular_WithSales
    \/ Popular_Latest
    \/ Popular_Fallback
    \/ Page_Latest
    \/ Page_Count
    \/ Page_WithSales
    \/ Page_NoSales

ListingAdmin == \E id \in CatalogIds : ToggleProduct(id)

ListingNext == ListingInvoke \/ ListingStep \/ ListingAdmin \/ NextPage

ListingSpec == ListingInit /\ [][ListingNext]_vars

\* ------------------------------------------------------------ cart hooks
\* What the browser-side hooks leave alone.
serverVars == <<products, cart_items, orders, order_items, nextCartId, nextOrderId,
            req, calls, adminOps, stockTouched, addLog, listing>>

\* The results a cart server action returns to a hook: success (with the
\* written row for add and update), or a failure with one of its messages.
ActionErrors(h) ==
    {MsgLoginRequired, MsgPostgrest}
    \cup (IF h = "useAddToCart" THEN {MsgStockExceeded, MsgAddFailed}
          ELSE IF h = "useUpdateCartItem" THEN {MsgStockExceeded, MsgUpdateFailed}
          ELSE IF h = "useRemoveCartItem" THEN {MsgRemoveFailed}
          ELSE {MsgClearFailed})
ActionResults(h) ==
    {[success |-> TRUE, data |-> h \in {"useAddToCart", "useUpdateCartItem"},
      error |-> "none"]}
    \cup {[success |-> FALSE, data |-> FALSE, error |-> e] : e \in ActionErrors(h)}

\* if (result.success && 'data' in result) return result.data   (add, update)
\* if (result.success) return                                    (remove, clear)
MutationFnResolves(h, result) ==
    IF h \in {"useAddToCart", "useUpdateCartItem"} THEN result.success /\ result.data
    ELSE result.success

\* 'error' in result ? result.error : <the hook's default message>
MutationError(h, result) ==
    IF ~result.success THEN result.error
    ELSE IF h = "useAddToCart" THEN MsgAddFailed ELSE MsgUpdateFailed

InvalidationMatches_Exact(queryKey, filterKey) == queryKey = filterKey

\* invalidateQueries({ queryKey }): a query matches when its key starts with
\* the filter's key
InvalidationMatches(queryKey, filterKey) ==
    /\ Len(filterKey) <= Len(queryKey)
    /\ \A i \in 1..Len(filterKey) : queryKey[i] = filterKey[i]

\* mutate(): the mutation function calls the server action.
Mutate(h) ==
    /\ client.mutations[h].status \in {"idle", "success", "error"}
    /\ client.mutates < MaxMutates
    /\ client' = [client EXCEPT !.mutations[h] = [IdleMutation EXCEPT !.status = "pending"],
                            !.mutates = @ + 1]
    /\ UNCHANGED serverVars

\* mutationFn: the server action returns; the function returns or throws.
MutationFn(h) ==
    /\ client.mutations[h].status = "pending"
    /\ \E result \in ActionResults(h) :
          client' = [client EXCEPT !.mutations[h] =
                    IF MutationFnResolves(h, result)
                    THEN [status |-> "resolved", result |-> result, error |-> "none"]
                    ELSE [status |-> "error", result |-> result,
                          error |-> MutationError(h, result)]]
    /\ UNCHANGED serverVars

\* onSuccess: queryClient.invalidateQueries({ queryKey: ['cart'] })
OnSuccess(h) ==
    /\ client.mutations[h].status = "resolved"
    /\ client' = [client EXCEPT
                 !.mutations[h].status = "success",
                 !.queries = [k \in QueryKeys |->
                                 IF InvalidationMatches(k, <<"cart">>)
                                 THEN [invalidated |-> TRUE,
                                       invalidations |-> @[k].invalidations + 1]
                                 ELSE @[k]]]
    /\ UNCHANGED serverVars

\* useCartCount: an invalidated query is fetched again.
Refetch(k) ==
    /\ client.queries[k].invalidated
    /\ client' = [client EXCEPT !.queries[k].invalidated = FALSE]
    /\ UNCHANGED serverVars

HookNext ==
    \/ \E h \in Hooks : Mutate(h)
    \/ \E h \in Hooks : MutationFn(h)
    \/ \E h \in Hooks : OnSuccess(h)
    \/ \E k \in QueryKeys : Refetch(k)

\* A mutation function that returned has its onSuccess callback run.
HookSpec == Init /\ [][HookNext]_vars /\ \A h \in Hooks : WF_vars(OnSuccess(h))

\* ------------------------------------------------------------ specification
CartItemIdInputs == {EmptyId, UnknownId} \cup {r.id : r \in cart_items}

\* Arguments that the first failing check never reads take one value.
AddInputs(userId) ==
    IF userId = NoUser THEN {<<EmptyString, [n |-> 1, frac |-> FALSE]>>}
    ELSE {<<EmptyString, [n |-> 1, frac |-> FALSE]>>}
         \cup ((ProductIds \cup {UnknownProduct}) \X QuantityInputs)

UpdateInputs(userId) ==
    IF userId = NoUser THEN {<<EmptyId, [n |-> 1, frac |-> FALSE]>>}
    ELSE {<<EmptyId, [n |-> 1, frac |-> FALSE]>>}
         \cup ((CartItemIdInputs \ {EmptyId}) \X QuantityInputs)

RemoveInputs(userId) == IF userId = NoUser THEN {EmptyId} ELSE CartItemIdInputs

OrderInputs(userId) ==
    IF userId = NoUser THEN {<<FALSE, NoExpected>>}
    ELSE {<<FALSE, NoExpected>>} \cup ({TRUE} \X ExpectedInputs(userId))

Invoke ==
    \E s \in {t \in Slots : CanInvoke(t)}, userId \in Users \cup {NoUser} :
        \/ \E a \in AddInputs(userId) : AddToCartAction(s, userId, a[1], a[2])
        \/ \E a \in UpdateInputs(userId) : UpdateCartItemAction(s, userId, a[1], a[2])
        \/ \E id \in RemoveInputs(userId) : RemoveCartItemAction(s, userId, id)
        \/ ClearCartAction(s, userId)
        \/ GetCartItemCountAction(s, userId)
        \/ \E a \in OrderInputs(userId) : CreateOrderAction(s, userId, a[1], a[2])

Step ==
    \E s \in Slots :
        \/ AddToCart_Existing(s)
        \/ AddToCart_Write(s)
        \/ UpdateCartItem_Write(s)
        \/ CreateOrder_GetCartSummary(s)
        \/ CreateOrder_InsertOrder(s)
        \/ CreateOrder_InsertItems(s)
        \/ CreateOrder_ClearCart(s)

Admin ==
    \E id \in {i \in UpdatedProducts : adminOps < MaxAdminOps}, name \in Names,
       price \in Prices, stock \in 0..MaxStock, active \in BOOLEAN :
        UpdateProduct(id, name, price, stock, active)

Next == Invoke \/ Step \/ Admin

Spec == Init /\ [][Next]_vars

\* Requests one at a time: a request is invoked, and a product is updated,
\* only while no other request is in flight.
Quiet == \A s \in Slots : ~Running(s)

SeqNext == (Quiet /\ Invoke) \/ Step \/ (Quiet /\ Admin)

SeqSpec == Init /\ [][SeqNext]_vars

\* ------------------------------------------------------------- order form
\* The user whose order page and form are modelled, and the carts the page
\* is opened on.
FormUser == "u1"
FormCarts ==
    {{[id |-> 1, clerk_id |-> FormUser, product_id |-> "p1", quantity |-> q]} : q \in 1..2}
    \cup {{[id |-> 1, clerk_id |-> FormUser, product_id |-> "p1", quantity |-> 1],
           [id |-> 2, clerk_id |-> FormUser, product_id |-> "p2", quantity |-> 1]}}

\* The createOrderAction call of the form, once it has returned.
FormSlot == CHOOSE s \in Slots : req[s].op = "createOrder" /\ req[s].pc = "done"
\* const result = await createOrderAction(...) is about to resume.
Pending ==
    /\ client.form.status = "calling"
    /\ \E s \in Slots : req[s].op = "createOrder" /\ req[s].pc = "done"

\* app/order/page.tsx: the page reads the cart and its summary, is left for
\* the cart page when the cart is empty, and renders the form with the grand
\* total as expectedTotalAmount.
OrderPage ==
    /\ ~Pending
    /\ client.form.status \in {"unmounted", "idle"}
    /\ Len(GetCartItems(FormUser)) # 0
    /\ client.form.expectedTotalAmount # GetCartSummary(FormUser).grandTotal
    /\ client' = [client EXCEPT !.form.status = "idle",
                                !.form.expectedTotalAmount =
                                    GetCartSummary(FormUser).grandTotal]
    /\ req' = Settled
    /\ UNCHANGED <<db, calls, adminOps, stockTouched, addLog, listing>>

\* onSubmit, up to the call: setIsSubmitting(true), the address check.
OnSubmit(addressComplete) ==
    /\ ~Pending
    /\ client.form.status = "idle"
    /\ client.form.submissions < MaxSubmits
    /\ client' = [client EXCEPT !.form.status = IF addressComplete THEN "calling"
                                                ELSE "idle",
                                !.form.submissions = @ + 1]
    /\ req' = Settled
    /\ UNCHANGED <<db, calls, adminOps, stockTouched, addLog, listing>>

\* onSubmit: createOrderAction({ shippingAddress, orderNote, expectedTotalAmount })
Form_CreateOrderAction ==
    /\ client.form.status = "calling"
    /\ \A s \in Slots : req[s].op # "createOrder" \/ req[s].pc = "idle"
    /\ \E s \in {t \in Slots : CanInvoke(t)}, userId \in {FormUser, NoUser} :
          CreateOrderAction(s, userId, TRUE,
                            [type |-> "number", val |-> client.form.expectedTotalAmount])

\* result.data?.orderId: a failure result carries no data.
ResultOrderId(r) == IF r.result = Ok THEN r.orderId ELSE 0

\* onSubmit after the call: a failure result or a missing order id ends the
\* submission; otherwise handlePayment(orderId, orderName, expectedTotalAmount)
\* runs: without a client key, or when the SDK does not load, no payment is
\* requested; else requestPayment is called once with the amount and the
\* order id, and the payment window opens or the call throws.
OnResult ==
    /\ Pending
    /\ LET result == req[FormSlot]
           orderId == ResultOrderId(result)
           payment == [submission |-> client.form.submissions, orderId |-> orderId,
                       amount |-> client.form.expectedTotalAmount]
       IN  IF result.result # Ok \/ orderId = 0
           THEN client' = [client EXCEPT !.form.status = "idle"]
           ELSE \/ client' = [client EXCEPT !.form.status = "idle"]
                \/ \E after \in {"requested", "idle"} :
                      client' = [client EXCEPT !.form.status = after,
                                              !.form.payments = Append(@, payment)]
    /\ UNCHANGED serverVars

FormInit ==
    /\ products = [id \in ProductIds |->
                     IF id = "p1"
                     THEN [name |-> "name1", price |-> 1000, stock_quantity |-> MaxStock,
                           is_active |-> TRUE]
                     ELSE [name |-> "name2", price |-> 500, stock_quantity |-> 1,
                           is_active |-> TRUE]]
    /\ cart_items \in FormCarts
    /\ orders = {}
    /\ order_items = {}
    /\ nextCartId = 3
    /\ nextOrderId = 1
    /\ req = [s \in Slots |-> Idle]
    /\ calls = 0
    /\ adminOps = 0
    /\ stockTouched = {}
    /\ addLog = [u \in Users |-> [id \in ProductIds |->
                   IF RowsOf(cart_items, u, id) = {} THEN CleanLog
                   ELSE [clean |-> TRUE,
                         adds |-> <<(CHOOSE r \in RowsOf(cart_items, u, id) : TRUE).quantity>>]]]
    /\ listing = IdleListing
    /\ client = IdleClient

FormNext ==
    \/ OrderPage
    \/ \E addressComplete \in BOOLEAN : OnSubmit(addressComplete)
    \/ Form_CreateOrderAction
    \/ OnResult
    \/ (~Pending /\ Step)
    \/ (~Pending /\ Admin)

FormSpec == FormInit /\ [][FormNext]_vars


\* ------------------------------------------------------------------ claims
\* Sum of price x quantity, and of quantity, over a set of cart rows, at the
\* current product prices.
RECURSIVE CartValue(_)
CartValue(rows) ==
    IF rows = {} THEN 0
    ELSE LET r == CHOOSE x \in rows : TRUE
         IN  products[r.product_id].price * r.quantity + CartValue(rows \ {r})

RECURSIVE CartQuantity(_)
CartQuantity(rows) ==
    IF rows = {} THEN 0
    ELSE LET r == CHOOSE x \in rows : TRUE
         IN  r.quantity + CartQuantity(rows \ {r})

UserRows(u) == {r \in cart_items : r.clerk_id = u}

\* Slot s takes a step of its request / is invoked / returns in this step.
Steps(s) == Running(s) /\ req'[s] # req[s]
Invoked(s, op) == CanInvoke(s) /\ calls' = calls + 1 /\ req'[s].op = op
Returns(s, op) ==
    /\ Steps(s) \/ Invoked(s, op)
    /\ req'[s].op = op
    /\ req'[s].pc = "done"

\* C1: when the total recomputed by getCartSummary differs from the client's
\* expected total by more than the tolerance, createOrderAction returns the
\* amount-changed message and the invocation has written no row of any table.
C1_MismatchRejected ==
    [][\A s \in Slots :
          (/\ req[s].pc = "createOrder_getCartSummary"
           /\ Steps(s)
           /\ ~req'[s].faulted
           /\ req[s].expectedTotalAmount.type = "number"
           /\ Abs(CartValue(UserRows(req[s].userId)) + ShippingFee
                  - req[s].expectedTotalAmount.val) > Tolerance)
          => /\ req'[s].pc = "done"
             /\ req'[s].result = MsgAmountChanged
             /\ req'[s].writes = {}
             /\ UNCHANGED db]_vars

C1_Witness ==
    \E s \in Slots :
        /\ req[s].op = "createOrder" /\ req[s].pc = "done"
        /\ req[s].result = MsgAmountChanged
        /\ req[s].expectedTotalAmount.val - req[s].grandTotal > Tolerance
        /\ req[s].writes = {}

\* C2: in every reachable state every order that has line items has a
\* total_amount equal to the sum of quantity x price over its order_items.
OrderLines(o) == {l \in order_items : l.order_id = o.id}

RECURSIVE LinesValue(_)
LinesValue(lines) ==
    IF lines = {} THEN 0
    ELSE LET l == CHOOSE x \in lines : TRUE
         IN  l.quantity * l.price + LinesValue(lines \ {l})

C2_ItemsSumToTotal ==
    \A o \in orders :
        OrderLines(o) # {} => LinesValue(OrderLines(o)) = o.total_amount

\* C3: when createOrderAction returns success, its clearCart statement has
\* run without error and cart_items holds no row of the user at that point.
C3_SuccessMeansCleared ==
    \A s \in Slots :
        (req[s].op = "createOrder" /\ req[s].pc = "done" /\ req[s].result = Ok)
        => /\ ~req[s].faulted
           /\ "cart_items" \in req[s].writes
           /\ UserRows(req[s].userId) = {}
           /\ \A i \in 1..Len(req[s].cartItems) :
                 ~\E r \in cart_items : r.id = req[s].cartItems[i].id

C3_Witness ==
    \E s \in Slots :
        /\ req[s].op = "createOrder" /\ req[s].pc = "done" /\ req[s].result = Ok
        /\ Len(req[s].cartItems) > 0
        /\ \E r \in cart_items : r.clerk_id # req[s].userId


\* C4 (as stated): createOrderAction invoked by a user whose cart reads empty
\* returns the empty-cart message and writes nothing, whatever its other inputs.
C4_EmptyCartAlwaysEmptyError ==
    [][\A s \in Slots :
          (/\ Invoked(s, "createOrder")
           /\ req'[s].userId \in Users
           /\ GetCartItems(req'[s].userId) = <<>>
           /\ ~req'[s].faulted)
          => /\ req'[s].pc = "done"
             /\ req'[s].result = MsgCartEmpty
             /\ UNCHANGED db]_vars

\* C4 (amended): createOrderAction invoked by a user whose cart reads empty
\* fails and writes nothing whatever its other inputs; the failure is the
\* empty-cart message when the shipping address is present and the expected
\* total passes the amount check (so that the snapshot is read), and the
\* message of the failing input check otherwise.
C4_EmptySnapshotRejected ==
    [][\A s \in Slots :
          (/\ Invoked(s, "createOrder")
           /\ req'[s].userId \in Users
           /\ GetCartItems(req'[s].userId) = <<>>)
          => /\ req'[s].pc = "done"
             /\ req'[s].result # Ok
             /\ req'[s].writes = {}
             /\ UNCHANGED db
             /\ ~req'[s].faulted =>
                   req'[s].result =
                      IF ~req'[s].shippingAddress THEN MsgAddressRequired
                      ELSE IF \/ req'[s].expectedTotalAmount.type = "undefined"
                              \/ /\ req'[s].expectedTotalAmount.type = "number"
                                 /\ req'[s].expectedTotalAmount.val <= 0
                           THEN MsgAmountInvalid
                      ELSE MsgCartEmpty]_vars

C4_Witness ==
    \E s \in Slots :
        /\ req[s].op = "createOrder" /\ req[s].pc = "done"
        /\ req[s].result = MsgCartEmpty
        /\ req[s].expectedTotalAmount.type = "number"
        /\ UserRows(req[s].userId) = {}
        /\ cart_items # {}

\* The total written by the summary step is the grand total of the rows the
\* user's cart holds when that step runs.
SummaryRecomputed(s) ==
    (req[s].pc = "createOrder_getCartSummary" /\ Steps(s) /\ ~req'[s].faulted)
    => req'[s].grandTotal = CartValue(UserRows(req[s].userId)) + ShippingFee

\* C5: every orders row is inserted with status 'pending' and the grand
\* total recomputed by getCartSummary in that invocation as its total_amount,
\* not the client's expected total; no row ever has another status.
C5_PendingWithServerTotal ==
    /\ [](\A o \in orders : o.status = "pending")
    /\ [][\A s \in Slots :
             /\ SummaryRecomputed(s)
             /\ (req[s].pc = "createOrder_insertOrder" /\ Steps(s) /\ orders' # orders)
                => \E o \in orders' :
                      /\ o \notin orders
                      /\ orders' = orders \cup {o}
                      /\ o.status = "pending"
                      /\ o.clerk_id = req[s].userId
                      /\ o.total_amount = req[s].grandTotal]_vars

C5_Witness ==
    \E s \in Slots : \E o \in orders :
        /\ req[s].op = "createOrder" /\ req[s].orderId = o.id
        /\ req[s].expectedTotalAmount.type = "number"
        /\ req[s].expectedTotalAmount.val # o.total_amount
        /\ o.total_amount = req[s].grandTotal

\* An addToCart call that can be judged against the tables: it was issued by
\* a signed-in user with a whole quantity of at least 1, met no storage
\* fault, and at most one row exists for its (user, product) pair.
AddJudged(s) ==
    /\ Returns(s, "addToCart")
    /\ ~req'[s].faulted
    /\ req'[s].userId \in Users
    /\ req'[s].productId # EmptyString
    /\ req'[s].quantity.n >= 1 /\ ~req'[s].quantity.frac
    /\ Cardinality(RowsOf(cart_items, req'[s].userId, req'[s].productId)) <= 1

\* C6: with requests one at a time, two addToCart calls for the same active
\* product, from no row and within its stock, leave exactly one row for the
\* pair, holding the sum of the two quantities: every call within the stock
\* succeeds and adds its quantity to the row's.
C6_TwoAddsMerge ==
    /\ [](\A u \in Users : \A id \in ProductIds :
            (addLog[u][id].clean /\ Len(addLog[u][id].adds) = 2)
            => \E r \in cart_items :
                  /\ RowsOf(cart_items, u, id) = {r}
                  /\ r.quantity = addLog[u][id].adds[1] + addLog[u][id].adds[2])
    /\ [][\A s \in Slots :
             LET u == req'[s].userId
                 id == req'[s].productId
                 before == RowsOf(cart_items, u, id)
                 merged == CartQuantity(before) + req'[s].quantity.n
             IN  (/\ AddJudged(s)
                  /\ ActiveProduct(id)
                  /\ merged <= products[id].stock_quantity)
                 => /\ req'[s].result = Ok
                    /\ \E r \in cart_items' :
                          /\ RowsOf(cart_items', u, id) = {r}
                          /\ r.quantity = merged
                          /\ cart_items' \ {r} = cart_items \ before]_vars

C6_Witness ==
    \E s \in Slots :
        /\ req[s].op = "addToCart" /\ req[s].pc = "done" /\ req[s].result = Ok
        /\ req[s].existingItem # NoRow
        /\ addLog[req[s].userId][req[s].productId] = [clean |-> TRUE, adds |-> <<1, 1>>]
        /\ \E r \in cart_items :
              /\ RowsOf(cart_items, req[s].userId, req[s].productId) = {r}
              /\ r.quantity = 2

\* C7: with requests one at a time, addToCart returns the stock message and
\* changes no row when the requested quantity (no row for the pair) or the
\* row's quantity plus the requested one exceeds the product's stock; it
\* returns not-found for a missing or inactive product and sold-out for
\* stock 0, in each case without a write.
C7_AddRejectedWithoutWrite ==
    [][\A s \in Slots :
          LET u == req'[s].userId
              id == req'[s].productId
              merged == CartQuantity(RowsOf(cart_items, u, id)) + req'[s].quantity.n
              rejected == IF ~ActiveProduct(id) THEN MsgProductNotFound
                          ELSE IF products[id].stock_quantity = 0 THEN MsgSoldOut
                          ELSE IF merged > products[id].stock_quantity
                               THEN MsgStockExceeded
                          ELSE Ok
          IN  (AddJudged(s) /\ rejected # Ok)
              => /\ req'[s].result = rejected
                 /\ req'[s].writes = {}
                 /\ UNCHANGED db]_vars

C7_Witness ==
    \E s \in Slots :
        /\ req[s].op = "addToCart" /\ req[s].pc = "done"
        /\ req[s].result = MsgStockExceeded
        /\ req[s].existingItem # NoRow
        /\ req[s].existingItem \in cart_items
        /\ req[s].existingItem.quantity <= req[s].stockQuantity
        /\ req[s].writes = {}

\* C8: in every reachable state cart_items holds at most one row per
\* (user, product) pair.
C8_OneRowPerPair ==
    \A u \in Users : \A id \in ProductIds :
        Cardinality(RowsOf(cart_items, u, id)) <= 1

\* C9: every quantity that addToCart or updateCartItemQuantity writes is a
\* whole number from 1 to the stock that call read for the row's product, and
\* every row of a product whose stock was never updated holds a quantity from
\* 1 to that stock.
C9_QuantityWithinStock ==
    /\ [](\A r \in cart_items :
            /\ r.quantity \in Nat /\ r.quantity >= 1
            /\ r.product_id \notin stockTouched
               => r.quantity <= products[r.product_id].stock_quantity)
    /\ [][\A s \in Slots :
             (Steps(s) /\ req[s].pc \in {"addToCart_write", "updateCartItem_write"})
             => \A r \in cart_items' \ cart_items :
                   /\ r.quantity \in Nat
                   /\ 1 <= r.quantity /\ r.quantity <= req[s].stockQuantity]_vars

C9_Witness ==
    \E s \in Slots :
        /\ req[s].op = "updateCartItem" /\ req[s].pc = "done" /\ req[s].result = Ok
        /\ req[s].quantity.n = req[s].stockQuantity
        /\ \E r \in cart_items :
              /\ r.id = req[s].cartItemId
              /\ r.quantity = products[r.product_id].stock_quantity
              /\ r.quantity # req[s].existingItem.quantity

\* C10: for every cart state getCartSummary returns the sum of quantity and
\* of price x quantity over exactly the rows getCartItems returns, shipping
\* fee 0 and grand total = total amount + shipping fee; a summary computed
\* after a cart mutation is that of the rows then current.
ReadableRows(u) == {r \in UserRows(u) : r.product_id \in DOMAIN products}

RECURSIVE SnapshotValue(_)
SnapshotValue(cartItems) ==
    IF cartItems = <<>> THEN 0
    ELSE Head(cartItems).product.price * Head(cartItems).quantity
         + SnapshotValue(Tail(cartItems))

C10_SummaryOfCurrentRows ==
    /\ [](\A u \in Users :
            /\ {GetCartItems(u)[i].id : i \in 1..Len(GetCartItems(u))}
                  = {r.id : r \in ReadableRows(u)}
            /\ Len(GetCartItems(u)) = Cardinality(ReadableRows(u))
            /\ GetCartSummary(u).totalItems = CartQuantity(ReadableRows(u))
            /\ GetCartSummary(u).totalAmount = CartValue(ReadableRows(u))
            /\ GetCartSummary(u).shippingFee = 0
            /\ GetCartSummary(u).grandTotal
                  = GetCartSummary(u).totalAmount + GetCartSummary(u).shippingFee)
    /\ [][\A s \in Slots : SummaryRecomputed(s)]_vars

C10_Witness ==
    \E s \in Slots :
        /\ req[s].pc = "createOrder_insertOrder"
        /\ req[s].grandTotal # SnapshotValue(req[s].cartItems)
        /\ req[s].grandTotal = CartValue(UserRows(req[s].userId))
        /\ \E i \in 1..Len(req[s].cartItems) : req[s].cartItems[i].quantity = 2

\* C12: getCartItems (and with it getCartSummary and the snapshot that
\* createOrderAction turns into line items) never includes a cart row whose
\* product is inactive at the time of the read.
C12_CartReadExcludesInactive ==
    \A u \in Users :
        \A i \in 1..Len(GetCartItems(u)) : GetCartItems(u)[i].product.is_active

\* C16: an exception thrown inside createOrderAction by a query function is
\* reported as the generic order-creation-failed message, never as the message
\* the thrown error carries.
C16_ExceptionsReportedGeneric ==
    \A s \in Slots :
        (/\ req[s].op = "createOrder" /\ req[s].pc = "done" /\ req[s].faulted
         /\ req[s].result \notin {MsgOrderStorage, MsgOrderItemsStorage})
        => /\ req[s].result = MsgOrderFailed
           /\ req[s].result # MsgPostgrest

\* A judged updateCartItem call: issued by a signed-in user with an item id
\* and a whole quantity, it returns in this step without a storage fault.
UpdateJudged(s) ==
    /\ Returns(s, "updateCartItem")
    /\ ~req'[s].faulted
    /\ req'[s].userId \in Users
    /\ req'[s].cartItemId # EmptyId
    /\ ~req'[s].quantity.frac

\* C17: with requests one at a time, updateCartItemQuantity(id, q) fails and
\* changes no row when q < 1, when no row has that id, when the row's product
\* is missing or inactive, or when q exceeds the product's stock; otherwise
\* the row's quantity becomes exactly q and every other row is unchanged.
C17_UpdateOverwritesOrFails ==
    [][\A s \in Slots :
          LET id == req'[s].cartItemId
              q == req'[s].quantity.n
              found == {r \in cart_items : r.id = id}
              refused ==
                 \/ q < 1
                 \/ found = {}
                 \/ \E r \in found :
                       \/ r.product_id \notin DOMAIN products
                       \/ ~products[r.product_id].is_active
                       \/ q > products[r.product_id].stock_quantity
          IN  UpdateJudged(s)
              => IF refused
                 THEN req'[s].result # Ok /\ req'[s].writes = {} /\ UNCHANGED db
                 ELSE /\ req'[s].result = Ok
                      /\ \E r \in found :
                            /\ found = {r}
                            /\ cart_items' =
                                  (cart_items \ {r})
                                  \cup {[id |-> r.id, clerk_id |-> r.clerk_id,
                                         product_id |-> r.product_id, quantity |-> q]}
                      /\ UNCHANGED <<products, orders, order_items>>]_vars

C17_Witness ==
    \E s \in Slots :
        /\ req[s].op = "updateCartItem" /\ req[s].pc = "done" /\ req[s].result = Ok
        /\ req[s].existingItem.quantity = 2
        /\ req[s].quantity.n = 1
        /\ \E r \in cart_items : r.id = req[s].cartItemId /\ r.quantity = 1
        /\ Cardinality(cart_items) >= 2

\* C18: no step of a cart or order operation changes a products row; the
\* stock of every product is the same after a successful order as before it.
C18_ProductsNeverWritten ==
    [][adminOps' = adminOps => products' = products]_vars

C18_Witness ==
    \E s \in Slots :
        /\ req[s].op = "createOrder" /\ req[s].pc = "done" /\ req[s].result = Ok
        /\ adminOps = 0
        /\ \E i \in 1..Len(req[s].cartItems) :
              /\ req[s].cartItems[i].quantity = 2
              /\ products[req[s].cartItems[i].product_id].stock_quantity = MaxStock

\* C20: when the order_items batch insert fails after the orders insert
\* succeeded, createOrderAction returns the line-item storage error, the
\* orders row is left 'pending' with no order_items rows, no row of orders or
\* cart_items is touched (clearCart is not called), and orders rows are never
\* updated or deleted afterwards.
C20_ItemsFailureLeavesHeader ==
    [][/\ \A o \in orders : o \in orders'
       /\ \A s \in Slots :
             (/\ req[s].pc = "createOrder_insertItems"
              /\ Steps(s)
              /\ order_items' = order_items)
             => /\ req'[s].pc = "done"
                /\ req'[s].result = MsgOrderItemsStorage
                /\ req'[s].writes = {"orders"}
                /\ UNCHANGED <<cart_items, orders, products>>
                /\ \E o \in orders' :
                      /\ o.id = req[s].orderId
                      /\ o.status = "pending"
                      /\ OrderLines(o) = {}]_vars

C20_Witness ==
    \E s \in Slots :
        /\ req[s].op = "createOrder" /\ req[s].pc = "done"
        /\ req[s].result = MsgOrderItemsStorage
        /\ \E o \in orders : o.id = req[s].orderId /\ OrderLines(o) = {}
        /\ UserRows(req[s].userId) # {}

\* C15: every server action invoked without a user id returns the
\* login-required failure in its first step, before any storage statement:
\* no table changes, no statement can have failed, and no local of the
\* request holds anything read from storage.
C15_NoUserFailsClosed ==
    [][\A s \in Slots :
          (/\ CanInvoke(s)
           /\ calls' = calls + 1
           /\ req'[s].op # "none"
           /\ req'[s].userId = NoUser)
          => /\ req'[s].op \in {"addToCart", "updateCartItem", "removeCartItem",
                                "clearCart", "getCartItemCount", "createOrder"}
             /\ req'[s].pc = "done"
             /\ req'[s].result = MsgLoginRequired
             /\ ~req'[s].faulted
             /\ req'[s].writes = {}
             /\ \A f \in {"stockQuantity", "existingItem", "finalQuantity", "cartItems",
                          "grandTotal", "orderId", "count"} : req'[s][f] = Idle[f]
             /\ UNCHANGED db]_vars

C15_Witness ==
    \E s \in Slots :
        /\ req[s].op = "getCartItemCount" /\ req[s].pc = "done"
        /\ req[s].userId = NoUser
        /\ req[s].result = MsgLoginRequired
        /\ cart_items # {}

\* C11: no product query returns a products row with is_active = false:
\* every row a query holds or returns was read as active, and when the
\* catalog did not change during the call no returned product is inactive
\* in the table, whatever the sales data and whichever queries fail.
C11_OnlyActiveListed ==
    \A i \in 1..Len(listing.products) :
        /\ listing.products[i].is_active
        /\ ~listing.changed => products[listing.products[i].id].is_active

C11_Witness ==
    /\ listing.op = "getProductsWithPagination" /\ listing.status = "returned"
    /\ listing.sortBy = "popularity"
    /\ ~listing.changed
    /\ Len(listing.products) = 2
    /\ \E id \in DOMAIN listing.salesMap : ~products[id].is_active

\* C13: for every page and limit (values below 1 taken as 1), category and
\* sort option, a returned page has totalPages = max(1, ceil(totalCount /
\* limit)) and 1 <= currentPage <= totalPages, currentPage being the
\* requested page when that is within range and totalPages when it is beyond.
C13_PageArithmetic ==
    (listing.op = "getProductsWithPagination" /\ listing.status = "returned")
    => LET limit == IF listing.limit < 1 THEN 1 ELSE listing.limit
           page == IF listing.page < 1 THEN 1 ELSE listing.page
       IN  /\ listing.totalPages >= 1
           /\ listing.totalPages * limit >= listing.totalCount
           /\ listing.totalPages > 1
              => (listing.totalPages - 1) * limit < listing.totalCount
           /\ 1 <= listing.currentPage
           /\ listing.currentPage <= listing.totalPages
           /\ listing.currentPage =
                 IF page <= listing.totalPages THEN page ELSE listing.totalPages

C13_Witness ==
    /\ listing.op = "getProductsWithPagination" /\ listing.status = "returned"
    /\ listing.sortBy = "popularity"
    /\ listing.salesMap # <<>>
    /\ listing.limit = 2
    /\ listing.totalCount = 3
    /\ listing.totalPages = 2
    /\ listing.page = 3
    /\ listing.currentPage = 2

\* C14: with no order_items rows, the list getPopularProducts(limit) returns
\* is the first min(limit, number of active products) active products in
\* descending created_at order, without duplicates, of the table as the
\* returning query read it.
C14_NoSalesGivesLatest ==
    [][(/\ listing'.op = "getPopularProducts"
        /\ listing.status # "returned"
        /\ listing'.status = "returned"
        /\ order_items = {})
       => LET returned == listing'.products
              active == {id \in DOMAIN products : products[id].is_active}
              listed == {returned[i].id : i \in 1..Len(returned)}
          IN  /\ Len(returned) = IF listing'.limit < Cardinality(active)
                                 THEN listing'.limit ELSE Cardinality(active)
              /\ listed \subseteq active
              /\ \A i \in 1..Len(returned) : \A j \in 1..Len(returned) :
                    i < j => returned[i].created_at > returned[j].created_at
              /\ \A id \in active \ listed : \A i \in 1..Len(returned) :
                    products[id].created_at < returned[i].created_at]_vars

C14_Witness ==
    /\ listing.op = "getPopularProducts" /\ listing.status = "returned"
    /\ order_items = {}
    /\ listing.limit = 2
    /\ Len(listing.products) = 2
    /\ \A id \in DOMAIN products : products[id].is_active

\* C19: for each cart hook, when the server action returns success the
\* mutation function returns and onSuccess then invalidates every query under
\* ['cart'], the count query ['cart', 'count', userId] included; when the
\* action returns failure the mutation rejects with the action's error
\* message; and no query is invalidated except by the onSuccess of a mutation
\* whose action returned success.
C19_InvalidateOnSuccessOnly ==
    /\ [][/\ \A h \in Hooks :
               LET before == client.mutations[h]
                   after == client'.mutations[h]
               IN  /\ (before.status = "pending" /\ after.status # "pending")
                      => /\ client'.queries = client.queries
                         /\ IF after.result.success
                            THEN after.status = "resolved"
                            ELSE /\ after.status = "error"
                                 /\ after.error = after.result.error
                   /\ (before.status = "resolved" /\ after.status # "resolved")
                      => /\ after.status = "success"
                         /\ \A k \in QueryKeys :
                               /\ client'.queries[k].invalidated
                               /\ client'.queries[k].invalidations
                                     = client.queries[k].invalidations + 1
          /\ (\E k \in QueryKeys :
                 client'.queries[k].invalidations # client.queries[k].invalidations)
             => \E h \in Hooks :
                   /\ client.mutations[h].status = "resolved"
                   /\ client.mutations[h].result.success
                   /\ client'.mutations[h].status = "success"]_vars
    /\ \A h \in Hooks :
          (client.mutations[h].status = "resolved")
             ~> (client.mutations[h].status = "success")

C19_Witness ==
    /\ client.mutations["useClearCart"].status = "success"
    /\ client.mutations["useAddToCart"].status = "error"
    /\ client.mutations["useAddToCart"].error = MsgStockExceeded
    /\ \A k \in QueryKeys : client.queries[k].invalidations = 1
    /\ \E k \in QueryKeys : ~client.queries[k].invalidated

\* C21: two addToCart calls of one user for one product can interleave so
\* that each passes its own stock check and the quantities held for the pair
\* add up to more than the stock.  While the stock is never updated, the total
\* exceeds it only with two or more rows for the pair, each within the stock,
\* and every write that leaves the total over the stock is made by a call
\* whose own stock check passed, on a read of the pair's rows that is not what
\* the table holds when the write lands.
C21_OversellOnlyByStaleRead ==
    /\ [](\A u \in Users : \A id \in ProductIds :
            (/\ id \notin stockTouched
             /\ CartQuantity(RowsOf(cart_items, u, id)) > products[id].stock_quantity)
            => /\ Cardinality(RowsOf(cart_items, u, id)) >= 2
               /\ \A r \in RowsOf(cart_items, u, id) :
                     r.quantity <= products[id].stock_quantity)
    /\ [][\A s \in Slots :
             LET u == req[s].userId
                 id == req[s].productId
             IN  (/\ req[s].pc = "addToCart_write"
                  /\ Steps(s)
                  /\ cart_items' # cart_items
                  /\ id \notin stockTouched
                  /\ CartQuantity(RowsOf(cart_items', u, id)) > products[id].stock_quantity)
                 => /\ RowsOf(cart_items, u, id)
                          # (IF req[s].existingItem = NoRow THEN {}
                             ELSE {req[s].existingItem})
                    /\ ~StockExceeded(req[s].finalQuantity, req[s].stockQuantity)
                    /\ req[s].stockQuantity = products[id].stock_quantity
                    /\ req'[s].result = Ok]_vars

C21_Witness ==
    \E s \in Slots :
        /\ req[s].op = "addToCart" /\ req[s].pc = "done" /\ req[s].result = Ok
        /\ req[s].existingItem = NoRow
        /\ adminOps = 0
        /\ Len(addLog[req[s].userId][req[s].productId].adds) = 2
        /\ Cardinality(RowsOf(cart_items, req[s].userId, req[s].productId)) = 2
        /\ CartQuantity(RowsOf(cart_items, req[s].userId, req[s].productId))
              > products[req[s].productId].stock_quantity

\* C22: when every query succeeds and the catalog does not change during
\* the call, getPopularProducts(limit) returns min(limit, number of active
\* products) distinct active products: first the (at most limit) active
\* products with sales that sold most, in descending order of their summed
\* order_items quantity, then the most recently created active products not
\* yet included, newest first.
C22_PopularThenLatest ==
    (/\ listing.op = "getPopularProducts" /\ listing.status = "returned"
     /\ ~listing.failed /\ ~listing.changed)
    => LET returned == listing.products
           active == {id \in DOMAIN products : products[id].is_active}
           sales == SalesMap(order_items)
           withSales == active \cap DOMAIN sales
           k == Min(listing.limit, Cardinality(withSales))
           listed(from, to) == {returned[i].id : i \in from..to}
       IN  /\ Len(returned) = Min(listing.limit, Cardinality(active))
           /\ \A i \in 1..Len(returned) : \A j \in 1..Len(returned) :
                 i # j => returned[i].id # returned[j].id
           /\ listed(1, Len(returned)) \subseteq active
           /\ k <= Len(returned)
           /\ listed(1, k) \subseteq withSales
           /\ \A i \in 1..k : \A j \in 1..k :
                 i < j => sales[returned[i].id] >= sales[returned[j].id]
           /\ \A id \in withSales \ listed(1, k) : \A i \in 1..k :
                 sales[id] <= sales[returned[i].id]
           /\ listed(k + 1, Len(returned)) \cap withSales = {}
           /\ \A i \in (k + 1)..Len(returned) : \A j \in (k + 1)..Len(returned) :
                 i < j => returned[i].created_at > returned[j].created_at
           /\ \A id \in active \ (withSales \cup listed(1, Len(returned))) :
                 \A i \in (k + 1)..Len(returned) :
                    products[id].created_at < returned[i].created_at

C22_Witness ==
    /\ listing.op = "getPopularProducts" /\ listing.status = "returned"
    /\ ~listing.failed /\ ~listing.changed
    /\ listing.limit = 3
    /\ Len(listing.products) = 3
    /\ DOMAIN listing.salesMap = {listing.products[1].id, listing.products[2].id}
    /\ listing.salesMap[listing.products[1].id] > listing.salesMap[listing.products[2].id]
    /\ listing.products[2].created_at > listing.products[1].created_at

\* C23: createOrderAction checks, in this order, that the user is signed in,
\* that the shipping address is present, that expectedTotalAmount is a
\* positive number, that the cart is not empty and that the totals agree; it
\* returns the error of the first check that fails, and it writes to orders,
\* order_items or cart_items only when all five checks pass.
PositiveNumber(e) == e.type = "number" /\ e.val > 0

C23_ChecksInOrder ==
    \A s \in Slots :
        req[s].op = "createOrder"
        => LET e == req[s].expectedTotalAmount
               rejects(message) ==
                   req[s].pc = "done" /\ req[s].result = message /\ req[s].writes = {}
           IN  /\ IF req[s].userId = NoUser THEN rejects(MsgLoginRequired)
                  ELSE IF ~req[s].shippingAddress THEN rejects(MsgAddressRequired)
                  ELSE IF ~PositiveNumber(e) THEN rejects(MsgAmountInvalid)
                  ELSE IF req[s].faulted THEN TRUE
                  ELSE IF req[s].cartItems = <<>> THEN rejects(MsgCartEmpty)
                  ELSE IF req[s].pc = "done" /\ req[s].writes = {}
                       THEN /\ req[s].result = MsgAmountChanged
                            /\ Abs(req[s].grandTotal - e.val) > Tolerance
                  ELSE TRUE
               /\ req[s].writes # {}
                  => /\ req[s].userId \in Users
                     /\ req[s].shippingAddress
                     /\ PositiveNumber(e)
                     /\ req[s].cartItems # <<>>
                     /\ Abs(req[s].grandTotal - e.val) <= Tolerance

\* C24: the order_items rows a createOrderAction call inserts are exactly one
\* row per item of the cart snapshot it read at its start (getCartItems, taken
\* once and never read again), each with that item's product_id and quantity
\* and the product name and price of the snapshot; a successful call leaves
\* exactly these rows for its order, and no later step changes or removes an
\* order_items row, whatever happens to the product's name or price.
C24_LinesFromSnapshot ==
    [][/\ \A l \in order_items : l \in order_items'
       /\ \A s \in Slots :
             LET snapshot == req'[s].cartItems
                 lines == {[order_id |-> req'[s].orderId,
                            line |-> snapshot[i].id,
                            product_id |-> snapshot[i].product_id,
                            product_name |-> snapshot[i].product.name,
                            quantity |-> snapshot[i].quantity,
                            price |-> snapshot[i].product.price]
                              : i \in 1..Len(snapshot)}
             IN  /\ (Invoked(s, "createOrder") /\ req'[s].pc # "done")
                    => /\ Len(snapshot) = Cardinality(UserRows(req'[s].userId))
                       /\ \A i \in 1..Len(snapshot) :
                             /\ snapshot[i].product = products[snapshot[i].product_id]
                             /\ \E r \in cart_items :
                                   /\ r.id = snapshot[i].id
                                   /\ r.clerk_id = req'[s].userId
                                   /\ r.product_id = snapshot[i].product_id
                                   /\ r.quantity = snapshot[i].quantity
                 /\ (req[s].op = "createOrder" /\ Steps(s))
                    => snapshot = req[s].cartItems
                 /\ (/\ req[s].pc = "createOrder_insertItems" /\ Steps(s)
                     /\ order_items' # order_items)
                    => /\ order_items' \ order_items = lines
                       /\ Cardinality(lines) = Len(snapshot)
                 /\ (Returns(s, "createOrder") /\ req'[s].result = Ok)
                    => {l \in order_items' : l.order_id = req'[s].orderId} = lines]_vars

C24_Witness ==
    \E s \in Slots :
        /\ req[s].op = "createOrder" /\ req[s].pc = "done" /\ req[s].result = Ok
        /\ \E l \in order_items :
              /\ l.order_id = req[s].orderId
              /\ l.quantity = 2
              /\ l.product_name # products[l.product_id].name

\* C25: a step of updateCartItemAction or removeCartItemAction invoked by a
\* signed-in user changes or deletes only cart rows of that user: every row
\* whose clerk_id is another user's is in cart_items after the step as it was
\* before.
C25_OnlyOwnRowsTouched ==
    [][\A s \in Slots :
          (/\ Steps(s) \/ Invoked(s, "updateCartItem") \/ Invoked(s, "removeCartItem")
           /\ req'[s].op \in {"updateCartItem", "removeCartItem"}
           /\ req'[s].userId \in Users)
          => \A r \in cart_items : r.clerk_id # req'[s].userId => r \in cart_items']_vars

\* C26: for sortBy 'latest', 'price-asc' and 'price-desc' the products that
\* getProductsWithPagination returns are the rows at positions
\* (currentPage - 1) * limit .. currentPage * limit - 1 of the sorted list of
\* the active products of the category, currentPage being the page the call
\* reports, also when the requested page was beyond totalPages and
\* currentPage was adjusted down to totalPages.
C26_RowsOfReportedPage ==
    (/\ listing.op = "getProductsWithPagination" /\ listing.status = "returned"
     /\ listing.sortBy # "popularity")
    => LET limit == Max(1, listing.limit)
           from == (listing.currentPage - 1) * limit
       IN  \E sorted \in PageOrder(ActiveRows(listing.category), listing.sortBy) :
              listing.products = Slice(sorted, from, from + limit)

\* C27: for sortBy 'popularity', with sales data, a catalog that does not
\* change and every query succeeding, the pages 1..totalPages of
\* getProductsWithPagination, requested one after the other, partition the
\* active products of the category: each page has at most limit products, no
\* product is on two pages, and every active product of the category is on
\* some page.
C27_PopularityPagesPartition ==
    (/\ listing.op = "getProductsWithPagination" /\ listing.status = "returned"
     /\ listing.sortBy = "popularity"
     /\ order_items # {}
     /\ ~listing.failed /\ ~listing.changed
     /\ listing.currentPage = Len(listing.shown) + 1
     /\ listing.currentPage = listing.totalPages)
    => LET pages == Append(listing.shown,
                           {listing.products[i].id : i \in 1..Len(listing.products)})
       IN  /\ Len(listing.products) <= Max(1, listing.limit)
           /\ \A i \in 1..Len(pages) : Cardinality(pages[i]) <= Max(1, listing.limit)
           /\ \A i \in 1..Len(pages) : \A j \in 1..Len(pages) :
                 i # j => pages[i] \cap pages[j] = {}
           /\ UNION {pages[i] : i \in 1..Len(pages)}
                 = {r.id : r \in ActiveRows(listing.category)}

\* C28: whenever createOrderAction returns a failure, the invocation has left
\* no complete order behind: no orders row it inserted has its order_items
\* rows stored, also when clearCart throws after both inserts succeeded.
C28_FailureLeavesNoCompleteOrder ==
    \A s \in Slots :
        (req[s].op = "createOrder" /\ req[s].pc = "done" /\ req[s].result # Ok)
        => ~\E o \in orders :
               /\ "orders" \in req[s].writes
               /\ o.id = req[s].orderId
               /\ OrderLines(o) # {}

\* C29: two concurrent createOrderAction invocations of one user that read
\* the same cart rows and were both given the matching expected total do not
\* both return success: when one has returned success, the other, in flight
\* with the same snapshot, does not return success too, so that one set of cart
\* rows becomes at most one order with line items.
C29_OneOrderPerCart ==
    [][\A s \in Slots : \A t \in Slots \ {s} :
          (/\ req[s].op = "createOrder" /\ req[s].pc = "done" /\ req[s].result = Ok
           /\ req[t].op = "createOrder" /\ Running(t)
           /\ req[t].userId = req[s].userId
           /\ req[t].cartItems = req[s].cartItems
           /\ req[s].expectedTotalAmount = [type |-> "number", val |-> req[s].grandTotal]
           /\ req[t].expectedTotalAmount = req[s].expectedTotalAmount)
          => ~(Returns(t, "createOrder") /\ req'[t].result = Ok)]_vars

\* C30: the order form requests a payment only when its createOrderAction
\* call returned success with an order id, at most once per submission, with
\* that order id and an amount within 0.01 of the total_amount of the order
\* stored under it; a submission whose call failed requests no payment.
C30_PaymentAfterSuccessOnly ==
    /\ [](LET payments == client.form.payments
          IN  /\ \A i \in 1..Len(payments) : \A j \in 1..Len(payments) :
                    i # j => payments[i].submission # payments[j].submission
              /\ \A i \in 1..Len(payments) :
                    \E o \in orders :
                       /\ o.id = payments[i].orderId
                       /\ OrderLines(o) # {}
                       /\ Abs(o.total_amount - payments[i].amount) <= Tolerance)
    /\ [][LET before == client.form.payments
              after == client'.form.payments
          IN  /\ after # before
                 => /\ Pending
                    /\ req[FormSlot].result = Ok
                    /\ req[FormSlot].orderId # 0
                    /\ Len(after) = Len(before) + 1
                    /\ SubSeq(after, 1, Len(before)) = before
                    /\ after[Len(after)].orderId = req[FormSlot].orderId
                    /\ after[Len(after)].submission = client.form.submissions
              /\ (Pending /\ req[FormSlot].result # Ok) => after = before]_vars

C30_Witness ==
    /\ client.form.submissions = 2
    /\ Len(client.form.payments) = 1
    /\ client.form.payments[1].submission = 2
    /\ adminOps = 1
    /\ \E o \in orders :
          /\ o.id = client.form.payments[1].orderId
          /\ o.total_amount = client.form.payments[1].amount
          /\ o.total_amount = 1000

====
